---- MODULE Spec2Model ----
(***************************************************************************)
(* Model of scan.py, the daily scanner of the 3DGS viewer monitor:         *)
(* search -> deduplicate -> format -> analyze -> report -> save.           *)
(*                                                                         *)
(* Spec        the whole pipeline (main), run repeatedly over one          *)
(*             filesystem, with every outcome of the two external          *)
(*             services drawn nondeterministically.                        *)
(* SpecDedup   deduplicate_repos applied to every bounded input list.      *)
(* SpecFormat  format_repo_for_analysis applied to every raw record.       *)
(* SpecReport  generate_daily_report applied to every bounded record list. *)
(***************************************************************************)
EXTENDS Integers, Sequences, FiniteSets, TLC

VARIABLES
    \* ---- one run of main() ----
    pc,               \* position of main(): see PcValues
    githubToken,      \* os.environ has a non-empty GITHUB_TOKEN
    anthropicKey,     \* os.environ has a non-empty ANTHROPIC_API_KEY
    date_str,         \* main: date_str (0 before the first run)
    qi,               \* index into SEARCH_QUERIES of the next query
    all_repos,        \* main: all_repos
    unique_repos,     \* main: unique_repos
    formatted_repos,  \* main: formatted_repos
    analysis,         \* main: analysis
    report,           \* main: report
    exception,        \* the exception that escaped main ("" if none)
    \* ---- the world outside the process ----
    files,            \* path -> content (NoFile when the path does not exist)
    clock,            \* datetime.utcnow(), advanced once per run
    \* ---- history of the current run ----
    githubRequests,   \* GET requests sent to the search API in this run
    claudeRequests,   \* requests sent to the generative-text service in this run
    searchesReturned, \* calls of search_github_repos that returned in this run
    written,          \* paths written by this run
    lastCompleted,    \* report of the most recently completed run (NoFile if none)
    \* ---- a single call of one pure function ----
    fn_pc,            \* "idle", "call" or "ret"
    fn_in,            \* the argument(s) of the call
    fn_out            \* the value returned

vars == <<pc, githubToken, anthropicKey, date_str, qi, all_repos, unique_repos,
          formatted_repos, analysis, report, exception, files, clock,
          githubRequests, claudeRequests, searchesReturned, written,
          lastCompleted, fn_pc, fn_in, fn_out>>

mainVars == <<pc, githubToken, anthropicKey, date_str, qi, all_repos,
              unique_repos, formatted_repos, analysis, report, exception,
              files, clock, githubRequests, claudeRequests, searchesReturned,
              written, lastCompleted>>

fnVars == <<fn_pc, fn_in, fn_out>>

----------------------------------------------------------------------------
(* Bounds of the model *)

\* Longest list handed to deduplicate_repos in SpecDedup.
MaxLen == 5
\* Longest list handed to generate_daily_report in SpecReport.
MaxReportLen == 3
\* Number of runs of main() over the same filesystem.
MaxRuns == 2
\* Number of distinct calendar days a run can fall on.
NumDates == 2

(* Program constants *)

\* len(SEARCH_QUERIES)
NumQueries == 6

----------------------------------------------------------------------------
(* JSON / Python values.  A value is a record tagged by its type, so that  *)
(* None, "", 0 and [] stay distinct, as they are in Python.                *)

JNone == [none |-> TRUE]
JStr(s) == [str |-> s]
JInt(n) == [int |-> n]
JList(l) == [list |-> l]

IsStr(v) == "str" \in DOMAIN v
IsInt(v) == "int" \in DOMAIN v
IsList(v) == "list" \in DOMAIN v

\* Python truthiness, as used by `if full_name`, `if r['topics']`, ...
Truthy(v) ==
    CASE IsStr(v) -> v.str # ""
      [] IsInt(v) -> v.int # 0
      [] IsList(v) -> v.list # <<>>
      [] OTHER -> FALSE

\* dict.get(key, default): the default is used only when the key is absent.
Get(d, key, default) == IF key \in DOMAIN d THEN d[key] ELSE default

----------------------------------------------------------------------------
(* deduplicate_repos *)

RECURSIVE DedupLoop(_, _, _, _)
\* The for loop of deduplicate_repos from index i on, with its two locals.
DedupLoop(repos, i, seen, unique) ==
    IF i > Len(repos) THEN unique
    ELSE LET full_name == Get(repos[i], "full_name", JStr(""))
         IN  IF Truthy(full_name) /\ full_name \notin seen
             THEN DedupLoop(repos, i + 1, seen \cup {full_name},
                            Append(unique, repos[i]))
             ELSE DedupLoop(repos, i + 1, seen, unique)

RECURSIVE DedupLoopKeepLast(_, _, _, _)
\* A deduplication in which a later record replaces the earlier one.
DedupLoopKeepLast(repos, i, seen, unique) ==
    IF i > Len(repos) THEN unique
    ELSE LET full_name == Get(repos[i], "full_name", JStr(""))
         IN  IF ~Truthy(full_name)
             THEN DedupLoopKeepLast(repos, i + 1, seen, unique)
             ELSE IF full_name \notin seen
             THEN DedupLoopKeepLast(repos, i + 1, seen \cup {full_name},
                                    Append(unique, repos[i]))
             ELSE DedupLoopKeepLast(repos, i + 1, seen,
                    [k \in 1..Len(unique) |->
                        IF Get(unique[k], "full_name", JStr("")) = full_name
                        THEN repos[i] ELSE unique[k]])

deduplicate_repos_keep_last(repos) == DedupLoopKeepLast(repos, 1, {}, <<>>)

deduplicate_repos(repos) == DedupLoop(repos, 1, {}, <<>>)

----------------------------------------------------------------------------
(* format_repo_for_analysis *)

format_repo_for_analysis(repo) ==
    [name        |-> Get(repo, "full_name", JStr("Unknown")),
     description |-> Get(repo, "description", JStr("No description")),
     url         |-> Get(repo, "html_url", JStr("")),
     stars       |-> Get(repo, "stargazers_count", JInt(0)),
     language    |-> Get(repo, "language", JStr("Unknown")),
     created_at  |-> Get(repo, "created_at", JStr("")),
     topics      |-> Get(repo, "topics", JList(<<>>))]

----------------------------------------------------------------------------
(* Text formatting used by the prompt and by the report *)

Digits == <<"0", "1", "2", "3", "4", "5", "6", "7", "8", "9">>

RECURSIVE IntStr(_)
\* str(n) for a natural number n.
IntStr(n) == IF n < 10 THEN Digits[n + 1]
             ELSE IntStr(n \div 10) \o Digits[(n % 10) + 1]

\* f"{v}" for a string, an integer or None.
Fmt(v) ==
    CASE IsStr(v) -> v.str
      [] IsInt(v) -> IntStr(v.int)
      [] OTHER -> "None"

RECURSIVE Join(_)
\* ', '.join(l)
Join(l) == IF l = <<>> THEN ""
           ELSE IF Len(l) = 1 THEN l[1]
           ELSE l[1] \o ", " \o Join(Tail(l))

\* {', '.join(r['topics']) if r['topics'] else 'None'}
TopicsText(topics) == IF Truthy(topics) THEN Join(topics.list) ELSE "None"

\* s[:10]; every other string of the model is at most 10 characters long.
Slice10(s) == IF s = "2025-06-01T08:30:00Z" THEN "2025-06-01" ELSE s

\* {repo['created_at'][:10] if repo['created_at'] else 'Unknown'}
CreatedText(created_at) ==
    IF Truthy(created_at) THEN Slice10(created_at.str) ELSE "Unknown"

----------------------------------------------------------------------------
(* generate_daily_report.  The markdown text is kept as the sequence of    *)
(* the pieces the function emits, each tagged by what it is.               *)

\* The subsection emitted for one record by the body of the for loop.
RepoSection(repo) ==
    << [l |-> "h3", name |-> Fmt(repo.name), url |-> Fmt(repo.url)],
       [l |-> "language", v |-> Fmt(repo.language)],
       [l |-> "stars", v |-> Fmt(repo.stars)],
       [l |-> "created", v |-> CreatedText(repo.created_at)],
       [l |-> "topics", v |-> TopicsText(repo.topics)],
       [l |-> "description", v |-> Fmt(repo.description)] >>

RECURSIVE RepoSections(_)
\* for repo in repos: report += ...
RepoSections(repos) ==
    IF repos = <<>> THEN <<>>
    ELSE RepoSection(Head(repos)) \o RepoSections(Tail(repos))

FallbackLine == [l |-> "fallback", v |-> "*No new repos found in the last 24 hours.*"]

\* A report whose count is taken after the listing was cut to the records
\* that have topics.
generate_daily_report_filtered(repos, analysis_text, date, now) ==
    LET shown == SelectSeq(repos, LAMBDA r : Truthy(r.topics))
    IN  << [l |-> "title", date |-> date],
           [l |-> "scanned", n |-> Len(shown)],
           [l |-> "queries", n |-> NumQueries],
           [l |-> "range", v |-> "Last 24 hours"],
           [l |-> "analysis", v |-> analysis_text],
           [l |-> "all_repos_heading"] >>
        \o (IF repos # <<>> THEN RepoSections(shown) ELSE <<FallbackLine>>)
        \o << [l |-> "footer", at |-> now] >>

generate_daily_report(repos, analysis_text, date, now) ==
    << [l |-> "title", date |-> date],
       [l |-> "scanned", n |-> Len(repos)],
       [l |-> "queries", n |-> NumQueries],
       [l |-> "range", v |-> "Last 24 hours"],
       [l |-> "analysis", v |-> analysis_text],
       [l |-> "all_repos_heading"] >>
    \o (IF repos # <<>> THEN RepoSections(repos) ELSE <<FallbackLine>>)
    \o << [l |-> "footer", at |-> now] >>

----------------------------------------------------------------------------
(* Calls that can raise: the result of a call is either a returned value   *)
(* or the exception that escapes it, with the number of requests it sent.  *)

Return(v, sent) == [raised |-> "", value |-> v, sent |-> sent]
Raise(e, sent) == [raised |-> e, sent |-> sent]

GithubTokenError == "ValueError: GITHUB_TOKEN environment variable is required"
AnthropicKeyError == "ValueError: ANTHROPIC_API_KEY environment variable is required"
ConfigErrors == {GithubTokenError, AnthropicKeyError}

----------------------------------------------------------------------------
(* search_github_repos *)

\* A JSON object, as opposed to a JSON array (JList) or null (JNone).
JObj(d) == [obj |-> d]
IsObj(v) == "obj" \in DOMAIN v

\* The raw records the search API returns in the pipeline.
RepoAX ==
    [full_name |-> JStr("a/x"), description |-> JStr("A web viewer"),
     html_url |-> JStr("https://github.com/a/x"), stargazers_count |-> JInt(5),
     language |-> JStr("TypeScript"), created_at |-> JStr("2025-06-01T08:30:00Z"),
     topics |-> JList(<<"webgl", "3dgs">>)]
RepoBY ==
    [full_name |-> JStr("b/y"), description |-> JNone,
     html_url |-> JStr("https://github.com/b/y"), stargazers_count |-> JInt(0),
     language |-> JNone, created_at |-> JStr("2025-06-01T08:30:00Z"),
     topics |-> JList(<<>>)]

\* What one GET to /search/repositories can come to.
Responses ==
    { [kind |-> "transport_error"],  \* requests.get raises (connection, timeout)
      [kind |-> "http_error"],       \* raise_for_status raises on a non-2xx status
      [kind |-> "not_json"],         \* response.json() raises requests' JSONDecodeError
      [kind |-> "json", body |-> JList(<<>>)],              \* a JSON array
      [kind |-> "json", body |-> JObj([items |-> JNone])],  \* {"items": null}
      [kind |-> "json", body |-> JObj([total_count |-> JInt(0)])],
      [kind |-> "json", body |-> JObj([items |-> JList(<<>>)])],
      [kind |-> "json", body |-> JObj([items |-> JList(<<RepoAX, RepoBY>>)])] }

\* The failures the try block is written for.
SearchFailures == {"transport_error", "http_error", "not_json"}

\* get_github_headers raises before the request; the except clause catches
\* requests.exceptions.RequestException only (which response.json() raises
\* for a body that is no JSON); data.get is inside the try but raises an
\* AttributeError when the body is a JSON array.
search_github_repos(token, resp) ==
    IF ~token
    THEN Raise(GithubTokenError, 0)
    ELSE IF resp.kind \in SearchFailures
    THEN Return(JList(<<>>), 1)
    ELSE IF IsObj(resp.body)
    THEN Return(Get(resp.body.obj, "items", JList(<<>>)), 1)
    ELSE Raise("AttributeError: 'list' object has no attribute 'get'", 1)

----------------------------------------------------------------------------
(* analyze_with_claude *)

NoReposText == "No new repositories found in the last 24 hours."

\* What client.messages.create and message.content[0].text can come to.
ServiceOutcomes ==
    { [kind |-> "text", text |-> "## Interesting viewers"],
      [kind |-> "error", reason |-> "Connection error."],
      [kind |-> "empty_content"] }

\* The try block: any exception becomes an error-message string.
ServiceCall(svc) ==
    CASE svc.kind = "text" -> svc.text
      [] svc.kind = "error" -> "Error analyzing with Claude: " \o svc.reason
      [] OTHER -> "Error analyzing with Claude: list index out of range"

\* An analyzer without the early exit on an empty list.
analyze_with_claude_no_early_exit(key, repos, svc) ==
    IF ~key
    THEN Raise(AnthropicKeyError, 0)
    ELSE Return(ServiceCall(svc), 1)

\* An analyzer that sends the request once more when the first one fails.
analyze_with_claude_retry(key, repos, svc) ==
    IF ~key
    THEN Raise(AnthropicKeyError, 0)
    ELSE IF repos = <<>>
    THEN Return(NoReposText, 0)
    ELSE Return(ServiceCall(svc), IF svc.kind = "text" THEN 1 ELSE 2)

analyze_with_claude(key, repos, svc) ==
    IF ~key
    THEN Raise(AnthropicKeyError, 0)
    ELSE IF repos = <<>>
    THEN Return(NoReposText, 0)
    ELSE Return(ServiceCall(svc), 1)

----------------------------------------------------------------------------
(* save_report and the write of latest_report.md *)

NoFile == <<>>
Dates == 1..NumDates
DatedPath(date) == <<"findings", IntStr(date) \o ".md">>
LatestPath == <<"latest_report.md">>
Paths == {DatedPath(d) : d \in Dates} \cup {LatestPath}

\* A save that appends to the dated file when it exists.
save_report_append(fs, rep, date) ==
    [fs EXCEPT ![DatedPath(date)] = @ \o rep]

\* findings_dir.mkdir(parents=True, exist_ok=True); filepath.write_text(report)
save_report(fs, rep, date) ==
    [fs EXCEPT ![DatedPath(date)] = rep]

\* A write of the issue file that keeps only the first line of the report.
write_latest_title_only(fs, rep) ==
    [fs EXCEPT ![LatestPath] = SubSeq(rep, 1, 1)]

\* issue_file.write_text(report)
write_latest(fs, rep) ==
    [fs EXCEPT ![LatestPath] = rep]

----------------------------------------------------------------------------
(* main, one step of it per action *)

PcValues == {"idle", "search", "dedupe", "format", "analyze", "report",
             "save", "latest", "done", "aborted"}

InitMain ==
    /\ pc = "idle"
    /\ githubToken = FALSE
    /\ anthropicKey = FALSE
    /\ date_str = 0
    /\ qi = 0
    /\ all_repos = <<>>
    /\ unique_repos = <<>>
    /\ formatted_repos = <<>>
    /\ analysis = ""
    /\ report = NoFile
    /\ exception = ""
    /\ files = [p \in Paths |-> NoFile]
    /\ clock = 0
    /\ githubRequests = 0
    /\ claudeRequests = 0
    /\ searchesReturned = 0
    /\ written = {}
    /\ lastCompleted = NoFile

\* The process is started: the environment and the current time are read,
\* and main runs up to the for loop (all_repos = []).
StartRun ==
    /\ pc = "idle"
    /\ clock < MaxRuns
    /\ clock' = clock + 1
    /\ githubToken' \in BOOLEAN
    /\ anthropicKey' \in BOOLEAN
    /\ date_str' \in Dates
    /\ qi' = 1
    /\ all_repos' = <<>>
    /\ pc' = "search"
    /\ UNCHANGED <<unique_repos, formatted_repos, analysis, report, exception,
                   files, githubRequests, claudeRequests, searchesReturned,
                   written, lastCompleted, fnVars>>

\* One iteration of `for query in SEARCH_QUERIES`: the call of
\* search_github_repos, len(repos) and all_repos.extend(repos).
Search ==
    /\ pc = "search"
    /\ \E resp \in Responses :
         LET r == search_github_repos(githubToken, resp)
         IN  /\ githubRequests' = githubRequests + r.sent
             /\ IF r.raised # ""
                THEN /\ pc' = "aborted"
                     /\ exception' = r.raised
                     /\ UNCHANGED <<qi, all_repos, searchesReturned>>
                ELSE /\ searchesReturned' = searchesReturned + 1
                     /\ IF IsList(r.value)
                        THEN /\ all_repos' = all_repos \o r.value.list
                             /\ qi' = qi + 1
                             /\ pc' = IF qi = NumQueries THEN "dedupe" ELSE "search"
                             /\ UNCHANGED exception
                        ELSE /\ pc' = "aborted"
                             /\ exception' = "TypeError: object of type 'NoneType' has no len()"
                             /\ UNCHANGED <<qi, all_repos>>
    /\ UNCHANGED <<githubToken, anthropicKey, date_str, unique_repos,
                   formatted_repos, analysis, report, files, clock,
                   claudeRequests, written, lastCompleted, fnVars>>

\* unique_repos = deduplicate_repos(all_repos)
Dedupe ==
    /\ pc = "dedupe"
    /\ unique_repos' = deduplicate_repos(all_repos)
    /\ pc' = "format"
    /\ UNCHANGED <<githubToken, anthropicKey, date_str, qi, all_repos,
                   formatted_repos, analysis, report, exception, files, clock,
                   githubRequests, claudeRequests, searchesReturned, written,
                   lastCompleted, fnVars>>

\* formatted_repos = [format_repo_for_analysis(r) for r in unique_repos]
Format ==
    /\ pc = "format"
    /\ formatted_repos' = [i \in 1..Len(unique_repos) |->
                              format_repo_for_analysis(unique_repos[i])]
    /\ pc' = "analyze"
    /\ UNCHANGED <<githubToken, anthropicKey, date_str, qi, all_repos,
                   unique_repos, analysis, report, exception, files, clock,
                   githubRequests, claudeRequests, searchesReturned, written,
                   lastCompleted, fnVars>>

\* analysis = analyze_with_claude(formatted_repos)
Analyze ==
    /\ pc = "analyze"
    /\ \E svc \in ServiceOutcomes :
         LET r == analyze_with_claude(anthropicKey, formatted_repos, svc)
         IN  /\ claudeRequests' = claudeRequests + r.sent
             /\ IF r.raised # ""
                THEN /\ pc' = "aborted"
                     /\ exception' = r.raised
                     /\ UNCHANGED analysis
                ELSE /\ analysis' = r.value
                     /\ pc' = "report"
                     /\ UNCHANGED exception
    /\ UNCHANGED <<githubToken, anthropicKey, date_str, qi, all_repos,
                   unique_repos, formatted_repos, report, files, clock,
                   githubRequests, searchesReturned, written, lastCompleted,
                   fnVars>>

\* report = generate_daily_report(formatted_repos, analysis, date_str)
Report ==
    /\ pc = "report"
    /\ report' = generate_daily_report(formatted_repos, analysis, date_str, clock)
    /\ pc' = "save"
    /\ UNCHANGED <<githubToken, anthropicKey, date_str, qi, all_repos,
                   unique_repos, formatted_repos, analysis, exception, files,
                   clock, githubRequests, claudeRequests, searchesReturned,
                   written, lastCompleted, fnVars>>

\* filepath = save_report(report, date_str, findings_dir)
Save ==
    /\ pc = "save"
    /\ files' = save_report(files, report, date_str)
    /\ written' = written \cup {DatedPath(date_str)}
    /\ pc' = "latest"
    /\ UNCHANGED <<githubToken, anthropicKey, date_str, qi, all_repos,
                   unique_repos, formatted_repos, analysis, report, exception,
                   clock, githubRequests, claudeRequests, searchesReturned,
                   lastCompleted, fnVars>>

\* issue_file.write_text(report), the summary prints and `return 0`.
WriteLatest ==
    /\ pc = "latest"
    /\ files' = write_latest(files, report)
    /\ written' = written \cup {LatestPath}
    /\ lastCompleted' = report
    /\ pc' = "done"
    /\ UNCHANGED <<githubToken, anthropicKey, date_str, qi, all_repos,
                   unique_repos, formatted_repos, analysis, report, exception,
                   clock, githubRequests, claudeRequests, searchesReturned,
                   fnVars>>

\* exit(main()): the process ends, with status 0 after "done" and with the
\* traceback of the escaped exception after "aborted"; only the files stay.
Exit ==
    /\ pc \in {"done", "aborted"}
    /\ pc' = "idle"
    /\ githubToken' = FALSE
    /\ anthropicKey' = FALSE
    /\ date_str' = 0
    /\ qi' = 0
    /\ all_repos' = <<>>
    /\ unique_repos' = <<>>
    /\ formatted_repos' = <<>>
    /\ analysis' = ""
    /\ report' = NoFile
    /\ exception' = ""
    /\ githubRequests' = 0
    /\ claudeRequests' = 0
    /\ searchesReturned' = 0
    /\ written' = {}
    /\ UNCHANGED <<files, clock, lastCompleted, fnVars>>

Init ==
    /\ InitMain
    /\ fn_pc = "idle"
    /\ fn_in = <<>>
    /\ fn_out = <<>>

Next ==
    \/ StartRun
    \/ Search
    \/ Dedupe
    \/ Format
    \/ Analyze
    \/ Report
    \/ Save
    \/ WriteLatest
    \/ Exit

Spec == Init /\ [][Next]_vars

----------------------------------------------------------------------------
(* Single calls of the three pure functions, on every input of a bounded   *)
(* set.  main stays idle.                                                  *)

SeqsUpTo(S, n) == UNION {[1..k -> S] : k \in 0..n}

\* A key that the dict does not have.
Absent == [absent |-> TRUE]
IsAbsent(v) == "absent" \in DOMAIN v

\* The keys of a raw record that format_repo_for_analysis reads.
RawKeys == {"full_name", "description", "html_url", "stargazers_count",
            "language", "created_at", "topics"}

\* The dict with the given values, without the keys whose value is Absent.
MkRaw(n, d, u, s, l, c, t) ==
    LET full == [full_name |-> n, description |-> d, html_url |-> u,
                 stargazers_count |-> s, language |-> l, created_at |-> c,
                 topics |-> t]
    IN  [k \in {x \in RawKeys : ~IsAbsent(full[x])} |-> full[k]]

\* Inputs of deduplicate_repos: three identifiers, one of them carried by
\* two different records, and records whose identifier is "", null or absent.
DedupRecords ==
    { [full_name |-> JStr("a/x"), stargazers_count |-> JInt(5)],
      [full_name |-> JStr("a/x"), stargazers_count |-> JInt(6)],
      [full_name |-> JStr("b/y"), stargazers_count |-> JInt(0)],
      [full_name |-> JStr("c/z"), stargazers_count |-> JInt(1)],
      [full_name |-> JStr(""), stargazers_count |-> JInt(2)],
      [full_name |-> JNone, stargazers_count |-> JInt(3)],
      [stargazers_count |-> JInt(4)] }

InitDedup ==
    /\ InitMain
    /\ fn_pc = "call"
    /\ fn_in \in SeqsUpTo(DedupRecords, MaxLen)
    /\ fn_out = <<>>

CallDedup ==
    /\ fn_pc = "call"
    /\ fn_out' = deduplicate_repos(fn_in)
    /\ fn_pc' = "ret"
    /\ UNCHANGED <<fn_in, mainVars>>

SpecDedup == InitDedup /\ [][CallDedup]_vars

\* Inputs of format_repo_for_analysis: every key absent, null, empty or set.
FormatRecords ==
    { MkRaw(n, d, u, s, l, c, t) :
        n \in {Absent, JNone, JStr(""), JStr("a/x")},
        d \in {Absent, JNone, JStr(""), JStr("A web viewer")},
        u \in {Absent, JNone, JStr(""), JStr("https://github.com/a/x")},
        s \in {Absent, JNone, JInt(0), JInt(5)},
        l \in {Absent, JNone, JStr(""), JStr("TypeScript")},
        c \in {Absent, JNone, JStr(""), JStr("2025-06-01T08:30:00Z")},
        t \in {Absent, JNone, JList(<<>>), JList(<<"webgl">>)} }

InitFormat ==
    /\ InitMain
    /\ fn_pc = "call"
    /\ fn_in \in FormatRecords
    /\ fn_out = <<>>

CallFormat ==
    /\ fn_pc = "call"
    /\ fn_out' = format_repo_for_analysis(fn_in)
    /\ fn_pc' = "ret"
    /\ UNCHANGED <<fn_in, mainVars>>

SpecFormat == InitFormat /\ [][CallFormat]_vars

\* Inputs of generate_daily_report: lists of normalized records.
ReportRecords ==
    { format_repo_for_analysis(r) :
        r \in {RepoAX, RepoBY, [full_name |-> JStr("c/z")]} }

InitReport ==
    /\ InitMain
    /\ fn_pc = "call"
    /\ fn_in \in [repos : SeqsUpTo(ReportRecords, MaxReportLen),
                  analysis : {NoReposText, "## Interesting viewers"},
                  date : Dates,
                  now : {1}]
    /\ fn_out = <<>>

CallReport ==
    /\ fn_pc = "call"
    /\ fn_out' = generate_daily_report(fn_in.repos, fn_in.analysis,
                                       fn_in.date, fn_in.now)
    /\ fn_pc' = "ret"
    /\ UNCHANGED <<fn_in, mainVars>>

SpecReport == InitReport /\ [][CallReport]_vars

----------------------------------------------------------------------------
(* Properties of the pure functions *)

\* The record has a full_name that is a non-empty string.
HasName(r) ==
    /\ "full_name" \in DOMAIN r
    /\ IsStr(r.full_name)
    /\ r.full_name.str # ""

\* The positions of the input whose identifier is non-empty and has not
\* appeared at an earlier position.
FirstOccurrences(in) ==
    { i \in 1..Len(in) :
        /\ HasName(in[i])
        /\ \A j \in 1..(i - 1) :
             ~(HasName(in[j]) /\ in[j].full_name = in[i].full_name) }

\* The k-th smallest element of a set of positions.
Nth(S, k) == CHOOSE i \in S : Cardinality({j \in S : j <= i}) = k

\* C1: deduplicate_repos returns exactly the subsequence of the records
\* whose full_name is non-empty and has not appeared earlier in the list:
\* the first record of each identifier, in input order; records with an
\* empty, null or missing full_name are dropped.
C1_DedupKeepsFirstOccurrences ==
    fn_pc = "ret" =>
        /\ Len(fn_out) = Cardinality(FirstOccurrences(fn_in))
        /\ \A k \in 1..Len(fn_out) :
             fn_out[k] = fn_in[Nth(FirstOccurrences(fn_in), k)]

\* The spec's example: identifiers [A, B, A, C, B] give [A, B, C], the two
\* records of A being different records.
C1_Witness ==
    /\ fn_pc = "ret"
    /\ Len(fn_in) = 5
    /\ \A i \in 1..5 : HasName(fn_in[i])
    /\ [i \in 1..5 |-> fn_in[i].full_name.str] = <<"a/x", "b/y", "a/x", "c/z", "b/y">>
    /\ fn_in[1] # fn_in[3]
    /\ fn_out = <<fn_in[1], fn_in[2], fn_in[4]>>

\* The raw key each field of the normalized record is read from.
SourceOf ==
    [name |-> "full_name", description |-> "description", url |-> "html_url",
     stars |-> "stargazers_count", language |-> "language",
     created_at |-> "created_at", topics |-> "topics"]

\* The defaults the specification documents.
DocumentedDefault ==
    [name |-> JStr("Unknown"), description |-> JStr("No description"),
     url |-> JStr(""), stars |-> JInt(0), language |-> JStr("Unknown"),
     created_at |-> JStr(""), topics |-> JList(<<>>)]

\* C2: format_repo_for_analysis returns a record with all seven fields, in
\* which every source field that is absent, or present but empty (null, "",
\* 0, []), has been replaced by its documented default.
C2_DefaultsForAbsentOrEmpty ==
    fn_pc = "ret" =>
        /\ DOMAIN fn_out = DOMAIN SourceOf
        /\ \A k \in DOMAIN SourceOf :
             (SourceOf[k] \notin DOMAIN fn_in \/ ~Truthy(fn_in[SourceOf[k]]))
                => fn_out[k] = DocumentedDefault[k]

\* The pieces of a report that are of one kind, in order.
Kind(rep, k) == SelectSeq(rep, LAMBDA x : x.l = k)

\* The listing section: what follows the "All Repos Found" heading.
ListingOf(rep) ==
    LET h == CHOOSE i \in 1..Len(rep) : rep[i].l = "all_repos_heading"
    IN  SubSeq(rep, h + 1, Len(rep))

\* C8: generate_daily_report emits a "Repos scanned" count equal to the
\* length of the list and exactly one subsection per record, in input
\* order; the fallback sentence is in the listing section if and only if
\* the list is empty, and then there is no subsection.
C8_ReportListsEveryRecordOnce ==
    fn_pc = "ret" =>
        LET repos == fn_in.repos
            listing == ListingOf(fn_out)
            heads == Kind(listing, "h3")
        IN  /\ Kind(fn_out, "scanned") = <<[l |-> "scanned", n |-> Len(repos)]>>
            /\ Kind(fn_out, "h3") = heads
            /\ Len(heads) = Len(repos)
            /\ \A i \in 1..Len(repos) :
                 heads[i] = [l |-> "h3", name |-> Fmt(repos[i].name),
                             url |-> Fmt(repos[i].url)]
            /\ \A k \in {"language", "stars", "created", "topics", "description"} :
                 Len(Kind(listing, k)) = Len(repos)
            /\ Len(Kind(listing, "fallback")) = (IF repos = <<>> THEN 1 ELSE 0)
            /\ Kind(listing, "fallback") = Kind(fn_out, "fallback")

\* A report of two different records, one of them without topics.
C8_Witness ==
    /\ fn_pc = "ret"
    /\ Len(fn_in.repos) = 2
    /\ fn_in.repos[1] # fn_in.repos[2]
    /\ ~Truthy(fn_in.repos[2].topics)
    /\ Len(Kind(fn_out, "h3")) = 2

----------------------------------------------------------------------------
(* Properties of the pipeline *)

\* analyze_with_claude has been called in this run and has returned or raised.
AnalyzeCalled ==
    \/ pc \in {"report", "save", "latest", "done"}
    \/ pc = "aborted" /\ exception = AnthropicKeyError

\* C3 as stated: whenever analyze_with_claude is called with an empty list,
\* it returns the fixed "no repositories" string and no request to the
\* generative-text service is attempted.
C3_EmptyListAlwaysReturnsLiteral ==
    (AnalyzeCalled /\ formatted_repos = <<>>) =>
        /\ pc # "aborted"
        /\ analysis = NoReposText
        /\ claudeRequests = 0

\* C3 as amended: called with an empty list, analyze_with_claude attempts
\* no request; it returns the fixed "no repositories" string when
\* ANTHROPIC_API_KEY is set, and raises the configuration error when it is
\* not.
C3_EmptyListShortCircuit ==
    (AnalyzeCalled /\ formatted_repos = <<>>) =>
        /\ claudeRequests = 0
        /\ IF anthropicKey
           THEN pc # "aborted" /\ analysis = NoReposText
           ELSE pc = "aborted" /\ exception = AnthropicKeyError

\* The analyzer has just returned from a call with an empty list.
C3_Witness ==
    /\ pc = "report"
    /\ anthropicKey
    /\ formatted_repos = <<>>
    /\ searchesReturned = NumQueries
    /\ analysis = NoReposText

\* C4: no kind of search failure (transport error, non-2xx status,
\* malformed response body) raises to main: a run that has its GITHUB_TOKEN
\* issues the search for every query and goes on to deduplication, the
\* failed queries contributing no record.
C4_SearchFailureNeverRaises ==
    /\ (pc = "aborted" => exception \in ConfigErrors)
    /\ (pc \in {"dedupe", "format", "analyze", "report", "save", "latest", "done"}
          => searchesReturned = NumQueries /\ githubRequests = NumQueries)

\* C5: a run in which both credentials are set never aborts, whatever the
\* search requests and the analyzer call come to, and it ends with both
\* files written with the report, which carries the analyzer's text or
\* error message.
C5_RunWithCredentialsCompletes ==
    (pc # "idle" /\ githubToken /\ anthropicKey) =>
        /\ pc # "aborted"
        /\ pc = "done" =>
             /\ written = {DatedPath(date_str), LatestPath}
             /\ files[DatedPath(date_str)] = report
             /\ files[LatestPath] = report
             /\ Kind(report, "analysis") = <<[l |-> "analysis", v |-> analysis]>>

\* C6: a run in which a credential is unset ends by the configuration
\* error raised at the first use of that credential, before any request to
\* that credential's service and before either file is written.
C6_MissingCredentialAbortsAtFirstUse ==
    /\ (pc # "idle" /\ ~githubToken) =>
          /\ pc \in {"search", "aborted"}
          /\ pc = "aborted" => exception = GithubTokenError
          /\ githubRequests = 0
          /\ written = {}
    /\ (pc # "idle" /\ githubToken /\ ~anthropicKey) =>
          /\ pc \in {"search", "dedupe", "format", "analyze", "aborted"}
          /\ pc = "aborted" => exception = AnthropicKeyError
          /\ claudeRequests = 0
          /\ written = {}

\* C7: when a run completes, findings/<date>.md and latest_report.md hold
\* the same content, the report built by generate_daily_report in that run,
\* and the report does not change between the two writes.
C7_BothFilesHoldTheReport ==
    /\ [](pc = "done" =>
            /\ files[DatedPath(date_str)] = files[LatestPath]
            /\ files[LatestPath] = report
            /\ report = generate_daily_report(formatted_repos, analysis,
                                              date_str, clock))
    /\ [][(pc \in {"save", "latest"}) => report' = report]_vars

\* A completed run whose report lists two records.
C7_Witness ==
    /\ pc = "done"
    /\ Len(formatted_repos) = 2
    /\ Len(Kind(files[LatestPath], "h3")) = 2
    /\ files[DatedPath(date_str)] = files[LatestPath]

\* C9 as stated: a run that completes has sent exactly one request to the
\* generative-text service, after the search of the last query returned.
C9_ExactlyOneAnalyzerRequest ==
    /\ pc = "done" => claudeRequests = 1
    /\ claudeRequests > 0 => searchesReturned = NumQueries

\* C9 as amended: a run that completes has sent one request to the
\* generative-text service when the deduplicated list is non-empty and none
\* when it is empty; a request is sent only after the search of the last
\* query returned, and no search request follows it.
C9_AtMostOneAnalyzerRequestAfterSearches ==
    /\ [](pc = "done" =>
            claudeRequests = (IF formatted_repos = <<>> THEN 0 ELSE 1))
    /\ [](claudeRequests <= 1)
    /\ [](claudeRequests > 0 =>
            /\ searchesReturned = NumQueries
            /\ githubRequests = NumQueries
            /\ pc \notin {"search", "dedupe", "format"})
    /\ [][(claudeRequests > 0 /\ pc' # "idle")
             => githubRequests' = githubRequests]_vars

\* A completed run that sent its one analyzer request, which failed.
C9_Witness ==
    /\ pc = "done"
    /\ claudeRequests = 1
    /\ githubRequests = NumQueries
    /\ analysis = "Error analyzing with Claude: Connection error."

\* C10: a run with date label D writes only findings/D.md and
\* latest_report.md; when it completes, findings/D.md holds exactly its own
\* report (stamped with its own generation instant), and latest_report.md
\* always holds the report of the most recently completed run.
C10_OnlyOwnFilesOverwritten ==
    /\ [][\A p \in Paths :
            files'[p] # files[p] =>
                /\ pc \in {"save", "latest"}
                /\ p \in {DatedPath(date_str), LatestPath}
                /\ files'[p] = report]_vars
    /\ [](pc = "done" =>
            /\ files[DatedPath(date_str)] = report
            /\ report[Len(report)] = [l |-> "footer", at |-> clock])
    /\ [](lastCompleted # NoFile => files[LatestPath] = lastCompleted)

\* A second run on the day of the first has replaced findings/D.md by its
\* own, different report, while the other day's file does not exist and
\* latest_report.md still holds the first run's report.
C10_Witness ==
    /\ pc = "latest"
    /\ clock = 2
    /\ lastCompleted # NoFile
    /\ lastCompleted[1] = [l |-> "title", date |-> date_str]
    /\ files[LatestPath] = lastCompleted
    /\ files[DatedPath(date_str)] = report
    /\ report # lastCompleted
    /\ \A d \in Dates : d # date_str => files[DatedPath(d)] = NoFile

====
